---- MODULE Spec2Model ----
(***************************************************************************)
(* Review ingestion and review analytics of review_saas/app/routes/        *)
(* reviews.py.                                                             *)
(*                                                                         *)
(* Optional values (Python None) are sets of at most one element: {} is    *)
(* None, {5} is the value 5.  A text is a sequence of tokens; the token    *)
(* " " is whitespace.  An instant is a number of ticks, TicksPerDay ticks  *)
(* to a calendar day.                                                      *)
(***************************************************************************)
EXTENDS Integers, Sequences, FiniteSets, Bags, TLC

\* ------------------------------------------------------------------------
\* Bounds of the ingestion model
\* ------------------------------------------------------------------------
\* Records one fetch cycle obtains from the review source, over all its pages.
MaxBatch == 2
\* Sync cycles started while another cycle of the company is in flight.
MaxOverlaps == 1
\* Instants 1..MaxTime carry the sync windows of the ingestion model.
MaxTime == 2

Workers == {"w1", "w2"}

Instants == 1..MaxTime

RECURSIVE SeqsUpTo(_, _)
SeqsUpTo(S, n) ==
    IF n = 0 THEN {<<>>}
    ELSE LET shorter == SeqsUpTo(S, n - 1)
         IN  shorter \cup {Append(s, x) : s \in {t \in shorter : Len(t) = n - 1}, x \in S}

\* ------------------------------------------------------------------------
\* Raw review records of the two sources
\* ------------------------------------------------------------------------
\* gmaps.place(...)["result"]["reviews"]: text, rating, time (epoch seconds).
PlacesPool ==
    { [text |-> <<"Great service">>, rating |-> {5}, time |-> {1}],
      [text |-> <<>>,                rating |-> {},  time |-> {1}],
      [text |-> <<"Slow">>,          rating |-> {2}, time |-> {0}] }

\* GBP payload["reviews"]: comment, starRating (enum name), createTime (a
\* string: well-formed ISO-8601 naming instant t, or malformed).
GbpPool ==
    { [comment |-> <<"Great service">>, starRating |-> {"FIVE"},
       createTime |-> {[iso |-> TRUE, t |-> 1]}],
      [comment |-> <<" ">>, starRating |-> {},
       createTime |-> {[iso |-> TRUE, t |-> 2]}],
      [comment |-> <<"Slow", " ">>, starRating |-> {"TWO"},
       createTime |-> {[iso |-> FALSE, t |-> 0]}] }

star_map == [s \in {"ONE", "TWO", "THREE", "FOUR", "FIVE"} |->
                CASE s = "ONE" -> 1 [] s = "TWO" -> 2 [] s = "THREE" -> 3
                  [] s = "FOUR" -> 4 [] s = "FIVE" -> 5]

\* str.strip(): leading and trailing whitespace removed.
RECURSIVE Strip(_)
Strip(text) ==
    IF text = <<>> THEN <<>>
    ELSE IF Head(text) = " " THEN Strip(Tail(text))
    ELSE IF text[Len(text)] = " " THEN Strip(SubSeq(text, 1, Len(text) - 1))
    ELSE text

\* Places: review_date = fromtimestamp(rev_time) if rev_time else None
\* (an epoch of 0 is falsy, hence no date).
PlacesRow(rev) ==
    [text |-> rev.text,
     rating |-> rev.rating,
     review_date |-> {t \in rev.time : t # 0}]

\* GBP: comment stripped, starRating through star_map, createTime through
\* fromisoformat (None when it raises).
GbpRow(rev) ==
    [text |-> Strip(rev.comment),
     rating |-> {star_map[s] : s \in (rev.starRating \cap DOMAIN star_map)},
     review_date |-> {c.t : c \in {x \in rev.createTime : x.iso}}]

\* GBP: "if r_dt and not (date_from <= r_dt <= date_to): continue".
InWindow(row, win) ==
    \A d \in row.review_date : win[1] <= d /\ d <= win[2]

Windows == {<<lo, hi>> : lo \in Instants, hi \in Instants} \cap
           {w \in Instants \X Instants : w[1] <= w[2]}

\* ------------------------------------------------------------------------
\* State
\* ------------------------------------------------------------------------
VARIABLES
    useGbp,     \* USE_GBP_API, read once at import
    db,         \* committed rows of table reviews for the company: a bag
    req,        \* per worker: the /reviews/sync request it serves
    overlaps,   \* cycles started so far while another one was in flight
    call,       \* the analytics call being answered: its arguments, the
                \* environment and clock it reads, the reviews it is given
    resp        \* the answer to call

ingest == <<useGbp, db, req, overlaps>>
analytics == <<call, resp>>
vars == <<useGbp, db, req, overlaps, call, resp>>

NoCall == [op |-> "none"]

Idle ==
    [pc |-> "idle", src |-> <<>>, cuts |-> {}, pos |-> 1, pageEnd |-> 0,
     win |-> <<1, 1>>, pending |-> <<>>, added |-> 0, stored |-> <<>>,
     pages |-> 0, ok |-> TRUE, again |-> FALSE]

Init ==
    /\ useGbp \in BOOLEAN
    /\ db = EmptyBag
    /\ req = [w \in Workers |-> Idle]
    /\ overlaps = 0
    /\ call = NoCall
    /\ resp = NoCall

\* ------------------------------------------------------------------------
\* Session and store
\* ------------------------------------------------------------------------
RECURSIVE SeqToBag(_)
SeqToBag(rows) ==
    IF rows = <<>> THEN EmptyBag
    ELSE SetToBag({Head(rows)}) (+) SeqToBag(Tail(rows))

\* db.query(Review).filter(text ==, rating ==, review_date ==).first():
\* SessionLocal is built with autoflush=False, so the SELECT reads the
\* committed rows only; rows the session has added and not committed are
\* not seen.
ExistsNullUnsafe(row) ==
    row.rating # {} /\ row.review_date # {} /\ BagIn(row, db)

Exists(row) == BagIn(row, db)

\* The body of the Places loop for one record.
PlacesAdd(r, rev) ==
    LET row == PlacesRow(rev)
    IN  IF Exists(row)
        THEN [r EXCEPT !.pos = @ + 1]
        ELSE [r EXCEPT !.pos = @ + 1, !.pending = Append(@, row), !.added = @ + 1]

\* The body of the GBP loop for one record.
GbpAdd(r, rev) ==
    LET row == GbpRow(rev)
    IN  IF ~InWindow(row, r.win) \/ Exists(row)
        THEN [r EXCEPT !.pos = @ + 1]
        ELSE [r EXCEPT !.pos = @ + 1, !.pending = Append(@, row), !.added = @ + 1]

\* "if added > 0: db.commit()" after the Places loop.
PlacesCommits(r) == r.added > 0

GbpCommitsAtEnd(r) == r.added # 0 /\ r.pageEnd = Len(r.src)

\* "if added: db.commit()" at the end of every GBP page.
GbpCommits(r) == r.added # 0

\* The end of the page that starts at pos: the next page break, or the end.
PageEnd(r) ==
    LET ends == {c \in r.cuts : c >= r.pos} \cup {Len(r.src)}
    IN  CHOOSE e \in ends : \A f \in ends : e <= f

\* What the source holds for one cycle: the records, and where the GBP
\* source breaks them into pages (Places answers in one page).
Sources ==
    IF useGbp
    THEN {[src |-> s, cuts |-> c] :
            s \in SeqsUpTo(GbpPool, MaxBatch), c \in SUBSET (1..MaxBatch)}
         \cap {x \in [src : SeqsUpTo(GbpPool, MaxBatch), cuts : SUBSET (1..MaxBatch)] :
                 x.cuts \subseteq 1..(Len(x.src) - 1)}
    ELSE {[src |-> s, cuts |-> {}] : s \in SeqsUpTo(PlacesPool, MaxBatch)}

max_reviews == 50

\* ------------------------------------------------------------------------
\* GET /reviews/sync/{company_id}
\* ------------------------------------------------------------------------
\* reviews_full_sync up to the call of the fetch function: the window is
\* resolved (start <= end after the swap) and handed to the GBP fetch only.
Begin(w) ==
    \E s \in Sources, win \in Windows :
        /\ useGbp \/ win = <<1, MaxTime>>
        /\ req' = [req EXCEPT ![w] =
                     [Idle EXCEPT !.pc = "fetch", !.src = s.src, !.cuts = s.cuts,
                                  !.win = win]]

InFlight(w) == req[w].pc \in {"fetch", "loop"}

\* A request that arrives while no cycle of the company is in flight.
StartSync(w) ==
    /\ req[w].pc = "idle"
    /\ \A v \in Workers : ~InFlight(v)
    /\ Begin(w)
    /\ UNCHANGED <<useGbp, db, overlaps, call, resp>>

\* A request that arrives while another worker is in a cycle of the same
\* company: the endpoint takes no lock, so it starts at once.
\* The source answers both with the same records.
StartOverlap(w) ==
    /\ req[w].pc = "idle"
    /\ overlaps < MaxOverlaps
    /\ \E v \in Workers \ {w}, win \in Windows :
         /\ InFlight(v)
         /\ useGbp \/ win = <<1, MaxTime>>
         /\ req' = [req EXCEPT ![w] =
                      [Idle EXCEPT !.pc = "fetch", !.src = req[v].src,
                                   !.cuts = req[v].cuts, !.win = win]]
    /\ overlaps' = overlaps + 1
    /\ UNCHANGED <<useGbp, db, call, resp>>

\* gmaps.place(...) answers; reviews_data = reviews[:max_reviews].
PlacesFetch(w) ==
    /\ ~useGbp
    /\ req[w].pc = "fetch"
    /\ LET data == SubSeq(req[w].src, 1, IF Len(req[w].src) < max_reviews
                                         THEN Len(req[w].src) ELSE max_reviews)
       IN  req' = [req EXCEPT ![w].pc = "loop", ![w].src = data,
                              ![w].pageEnd = Len(data)]
    /\ UNCHANGED <<useGbp, db, overlaps, call, resp>>

\* gmaps.place(...) raises: "except Exception: return 0"; the endpoint still
\* answers ok with added = 0.
PlacesFetchError(w) ==
    /\ ~useGbp
    /\ req[w].pc = "fetch"
    /\ req' = [req EXCEPT ![w].pc = "done", ![w].src = <<>>]
    /\ UNCHANGED <<useGbp, db, overlaps, call, resp>>

PlacesStep(w) ==
    /\ ~useGbp
    /\ req[w].pc = "loop"
    /\ req[w].pos <= req[w].pageEnd
    /\ req' = [req EXCEPT ![w] = PlacesAdd(@, @.src[@.pos])]
    /\ UNCHANGED <<useGbp, db, overlaps, call, resp>>

PlacesFinish(w) ==
    /\ ~useGbp
    /\ req[w].pc = "loop"
    /\ req[w].pos > req[w].pageEnd
    /\ IF PlacesCommits(req[w])
       THEN /\ db' = db (+) SeqToBag(req[w].pending)
            /\ req' = [req EXCEPT ![w].pc = "done", ![w].pages = 1,
                                  ![w].stored = @ \o req[w].pending,
                                  ![w].pending = <<>>]
       ELSE /\ db' = db
            /\ req' = [req EXCEPT ![w].pc = "done", ![w].pages = 1]
    /\ UNCHANGED <<useGbp, overlaps, call, resp>>

\* urlopen answers with the next page.
GbpFetchPage(w) ==
    /\ useGbp
    /\ req[w].pc = "fetch"
    /\ req' = [req EXCEPT ![w].pc = "loop", ![w].pageEnd = PageEnd(req[w])]
    /\ UNCHANGED <<useGbp, db, overlaps, call, resp>>

\* urlopen raises: last_err is set and the loop is left; ok is False.
GbpFetchError(w) ==
    /\ useGbp
    /\ req[w].pc = "fetch"
    /\ req' = [req EXCEPT ![w].pc = "done", ![w].ok = FALSE]
    /\ UNCHANGED <<useGbp, db, overlaps, call, resp>>

GbpStep(w) ==
    /\ useGbp
    /\ req[w].pc = "loop"
    /\ req[w].pos <= req[w].pageEnd
    /\ req' = [req EXCEPT ![w] = GbpAdd(@, @.src[@.pos])]
    /\ UNCHANGED <<useGbp, db, overlaps, call, resp>>

\* End of a page: commit, then follow nextPageToken or leave the loop.
GbpEndPage(w) ==
    /\ useGbp
    /\ req[w].pc = "loop"
    /\ req[w].pos > req[w].pageEnd
    /\ LET next == IF req[w].pageEnd < Len(req[w].src) THEN "fetch" ELSE "done"
       IN  IF GbpCommits(req[w])
           THEN /\ db' = db (+) SeqToBag(req[w].pending)
                /\ req' = [req EXCEPT ![w].pc = next, ![w].pages = @ + 1,
                                      ![w].stored = @ \o req[w].pending,
                                      ![w].pending = <<>>]
           ELSE /\ db' = db
                /\ req' = [req EXCEPT ![w].pc = next, ![w].pages = @ + 1]
    /\ UNCHANGED <<useGbp, overlaps, call, resp>>

\* The response is sent and get_db closes the session.
Return(w) ==
    /\ req[w].pc = "done"
    /\ req' = [req EXCEPT ![w] = Idle]
    /\ UNCHANGED <<useGbp, db, overlaps, call, resp>>

\* The client repeats the request at once; the source answers with the
\* records it answered with in the cycle that just ended.
RunAgain(w) ==
    /\ req[w].pc = "done"
    /\ \A v \in Workers : ~InFlight(v)
    /\ LET seen == req[w].pos - 1
       IN  req' = [req EXCEPT ![w] =
                     [Idle EXCEPT !.pc = "fetch", !.src = SubSeq(req[w].src, 1, seen),
                                  !.cuts = {c \in req[w].cuts : c < seen},
                                  !.win = req[w].win, !.again = TRUE]]
    /\ UNCHANGED <<useGbp, db, overlaps, call, resp>>

Cycle(w) ==
    \/ PlacesFetch(w)
    \/ PlacesFetchError(w)
    \/ PlacesStep(w)
    \/ PlacesFinish(w)
    \/ GbpFetchPage(w)
    \/ GbpFetchError(w)
    \/ GbpStep(w)
    \/ GbpEndPage(w)
    \/ Return(w)

\* Requests served one at a time.
Next ==
    \/ StartSync("w1")
    \/ RunAgain("w1")
    \/ Cycle("w1")

Spec == Init /\ [][Next]_vars

\* Two workers: a second request may arrive while the first is served.
NextConc ==
    \/ overlaps < MaxOverlaps /\ StartSync("w1")
    \/ Cycle("w1")
    \/ StartOverlap("w2")
    \/ Cycle("w2")

SpecConc == Init /\ [][NextConc]_vars

\* ------------------------------------------------------------------------
\* Ingestion: claims
\* ------------------------------------------------------------------------
\* The row a fetched record is stored as, by the configured source.
RowOf(rev) == IF useGbp THEN GbpRow(rev) ELSE PlacesRow(rev)

\* The rows of the records a cycle has gone through so far that lie in its
\* window (Places applies no window).
SeenRows(r) ==
    {RowOf(r.src[i]) : i \in 1..(r.pos - 1)} \cap
    {row \in {RowOf(r.src[i]) : i \in 1..(r.pos - 1)} :
        ~useGbp \/ InWindow(row, r.win)}

\* C1: no two stored reviews of the company share the triple (text, rating,
\* review_date), also when one fetched batch holds the same record twice.
C1_NoDuplicateTriple ==
    \A row \in BagToSet(db) : CopiesIn(row, db) <= 1

\* C2: the existence check and the insert of one sync request are never
\* interleaved with those of another request for the company: no session
\* holds an insert for a row that has been committed since its check, so no
\* review fetched by two simultaneous requests is stored twice.
C2_CheckAndInsertNotInterleaved ==
    \A w \in Workers : \A i \in DOMAIN req[w].pending :
        ~BagIn(req[w].pending[i], db)

C5_NoSignalNeverStored ==
    \A row \in BagToSet(db) : ~(row.text = <<>> /\ row.rating = {})

\* ========================================================================
\* Review analytics: GET /reviews/summary/{company_id}
\* ========================================================================
\* Bounds of the analytics model
\* Reviews the company has stored.
MaxReviews == 2
\* Calendar days 0..MaxDay.
MaxDay == 3
\* Instants of one calendar day: tick 0 is 00:00:00, tick TicksPerDay - 1 is
\* the last instant of the day (23:59:59).
TicksPerDay == 2
\* Calendar days of one month.
DaysPerMonth == 2
\* Ratings -1..MaxRating are handed to classify_sentiment.
MaxRating == 6

Days == 0..MaxDay

At(day, tick) == day * TicksPerDay + tick
DayOf(t) == t \div TicksPerDay
\* r_dt.strftime("%Y-%m")
MonthOf(t) == DayOf(t) \div DaysPerMonth

\* The calendar day of datetime(2026, 2, 21).
FixedDefaultDay == 1
FIXED_DEFAULT_START == At(FixedDefaultDay, 0)

\* The value of an optional that is present.
The(opt) == CHOOSE x \in opt : TRUE

\* Python's "a or b" for an optional datetime a (a datetime is truthy).
OrElse(opt, dflt) == IF opt = {} THEN dflt ELSE The(opt)

classify_sentiment_strict(rating) ==
    IF rating = {} THEN "Neutral"
    ELSE IF The(rating) > 4 THEN "Positive"
    ELSE IF The(rating) = 3 THEN "Neutral"
    ELSE "Negative"

classify_sentiment(rating) ==
    IF rating = {} THEN "Neutral"
    ELSE IF The(rating) >= 4 THEN "Positive"
    ELSE IF The(rating) = 3 THEN "Neutral"
    ELSE "Negative"

\* A date string is [fmt, day]: calendar day `day` written in format fmt.
\* strptime succeeds for the three formats below, and fails for any other
\* text; the datetime it yields is 00:00:00 of the day, made UTC.
DateFormats == {"%Y-%m-%d", "%d/%m/%Y", "%d-%m-%Y"}

_try_parse_date_any(value) ==
    {At(str.day, 0) : str \in {x \in value : x.fmt \in DateFormats}}

\* The stored review_date is a datetime: naive ones are taken as UTC,
\* aware ones converted to UTC; the instant is the same.
_parse_review_date(r) == r.review_date

_get_date_window_fixed(env_from, env_to, now) ==
    LET start_date == FIXED_DEFAULT_START
        end_date == OrElse(_try_parse_date_any(env_to), now)
    IN  IF end_date < start_date THEN <<end_date, start_date>>
        ELSE <<start_date, end_date>>

_get_date_window(env_from, env_to, now) ==
    LET start_date == OrElse(_try_parse_date_any(env_from), FIXED_DEFAULT_START)
        end_date == OrElse(_try_parse_date_any(env_to), now)
    IN  IF end_date < start_date THEN <<end_date, start_date>>
        ELSE <<start_date, end_date>>

ResolveWindowNoSwap(c, start_override, end_override) ==
    LET dflt == _get_date_window(c.env_from, c.env_to, c.now)
    IN  <<OrElse(start_override, dflt[1]), OrElse(end_override, dflt[2])>>

\* get_review_summary_data, lines 488-494: the default window, then the
\* overrides, then the swap.
ResolveWindow(c, start_override, end_override) ==
    LET dflt == _get_date_window(c.env_from, c.env_to, c.now)
        start_date == OrElse(start_override, dflt[1])
        end_date == OrElse(end_override, dflt[2])
    IN  IF end_date < start_date THEN <<end_date, start_date>>
        ELSE <<start_date, end_date>>

InWindowedNoEnd(r, win) ==
    /\ _parse_review_date(r) # {}
    /\ win[1] <= The(_parse_review_date(r))

InWindowedExclusive(r, win) ==
    /\ _parse_review_date(r) # {}
    /\ win[1] <= The(_parse_review_date(r))
    /\ The(_parse_review_date(r)) < win[2]

\* The condition of the list comprehension that builds `windowed`.
InWindowed(r, win) ==
    /\ _parse_review_date(r) # {}
    /\ win[1] <= The(_parse_review_date(r))
    /\ The(_parse_review_date(r)) <= win[2]

RECURSIVE Filter(_, _)
Filter(rows, win) ==
    IF rows = <<>> THEN <<>>
    ELSE IF InWindowed(Head(rows), win)
         THEN <<Head(rows)>> \o Filter(Tail(rows), win)
         ELSE Filter(Tail(rows), win)

RECURSIVE SumSeq(_)
SumSeq(xs) == IF xs = <<>> THEN 0 ELSE Head(xs) + SumSeq(Tail(xs))

\* round(num / den, 2) in hundredths: Python rounds to the nearest, and a
\* tie to the even neighbour.
Round2(num, den) ==
    LET q == (100 * num) \div den
        twice == 2 * ((100 * num) % den)
    IN  IF twice > den \/ (twice = den /\ q % 2 = 1) THEN q + 1 ELSE q

\* "r.rating or 0"
RatingOrZero(r) == IF r.rating = {} THEN 0 ELSE The(r.rating)

CountLabel(windowed, label) ==
    Cardinality({i \in DOMAIN windowed : classify_sentiment(windowed[i].rating) = label})

\* trend_data_list: one point per month that has a windowed review, in
\* ascending order of the month key.
RECURSIVE MonthPoints(_, _)
MonthPoints(windowed, months) ==
    IF months = {} THEN <<>>
    ELSE LET m == CHOOSE x \in months : \A y \in months : x <= y
             idx == {i \in DOMAIN windowed :
                        MonthOf(The(_parse_review_date(windowed[i]))) = m}
             total == SumSeq([i \in 1..Len(windowed) |->
                                IF i \in idx THEN RatingOrZero(windowed[i]) ELSE 0])
         IN  <<[month |-> m, avg_rating |-> Round2(total, Cardinality(idx)),
                count |-> Cardinality(idx)]>>
             \o MonthPoints(windowed, months \ {m})

\* Monthly points a trend is detected on.
MaxPoints == 6

\* round(num / den, 2) of a signed amount given in hundredths: to the
\* nearest hundredth, a tie to the even neighbour.
RoundSigned(num, den) ==
    LET a == IF num < 0 THEN -num ELSE num
        q == a \div den
        twice == 2 * (a % den)
        r == IF twice > den \/ (twice = den /\ q % 2 = 1) THEN q + 1 ELSE q
    IN  IF num < 0 THEN -r ELSE r

\* Insertion of one point into a list sorted by month, after the points of
\* the same month (sorted() is stable).
RECURSIVE InsertByMonth(_, _)
InsertByMonth(x, sorted) ==
    IF sorted = <<>> THEN <<x>>
    ELSE IF x.month < Head(sorted).month THEN <<x>> \o sorted
    ELSE <<Head(sorted)>> \o InsertByMonth(x, Tail(sorted))

Unsorted(list) == list

\* sorted(trend_data_list, key=lambda x: x["month"])
RECURSIVE SortByMonth(_)
SortByMonth(list) ==
    IF list = <<>> THEN <<>>
    ELSE InsertByMonth(list[Len(list)], SortByMonth(SubSeq(list, 1, Len(list) - 1)))

SumAvg(points) == SumSeq([i \in 1..Len(points) |-> points[i].avg_rating])

_detect_trend_strict(trend_data_list) ==
    IF Len(trend_data_list) < 3
    THEN [signal |-> "insufficient_data", delta |-> 0]
    ELSE LET data == SortByMonth(trend_data_list)
             n == Len(data)
             last3 == SubSeq(data, n - 2, n)
             prev3 == IF n >= 6 THEN SubSeq(data, n - 5, n - 3) ELSE <<>>
             delta == IF prev3 = <<>> THEN 0
                      ELSE RoundSigned(SumAvg(last3) - SumAvg(prev3), 3)
         IN  IF delta < -30 THEN [signal |-> "declining", delta |-> delta]
             ELSE IF delta > 30 THEN [signal |-> "improving", delta |-> delta]
             ELSE [signal |-> "stable", delta |-> delta]

\* _detect_trend: averages and delta in hundredths.  last_avg and prev_avg
\* are both sums of three averages over 3, so their difference is
\* (sum(last3) - sum(prev3)) / 3; with no prev3, prev_avg is last_avg and
\* the difference is 0.
_detect_trend(trend_data_list) ==
    IF Len(trend_data_list) < 3
    THEN [signal |-> "insufficient_data", delta |-> 0]
    ELSE LET data == SortByMonth(trend_data_list)
             n == Len(data)
             last3 == SubSeq(data, n - 2, n)
             prev3 == IF n >= 6 THEN SubSeq(data, n - 5, n - 3) ELSE <<>>
             delta == IF prev3 = <<>> THEN 0
                      ELSE RoundSigned(SumAvg(last3) - SumAvg(prev3), 3)
         IN  IF delta <= -30 THEN [signal |-> "declining", delta |-> delta]
             ELSE IF delta >= 30 THEN [signal |-> "improving", delta |-> delta]
             ELSE [signal |-> "stable", delta |-> delta]

_risk_level_strict(score) ==
    IF score >= 4000 THEN "High"
    ELSE IF score > 2000 THEN "Medium"
    ELSE "Low"

\* _risk_level: the score in hundredths.
_risk_level(score) ==
    IF score >= 4000 THEN "High"
    ELSE IF score >= 2000 THEN "Medium"
    ELSE "Low"

risk_score_whole(negative, total_reviews) ==
    100 * ((200 * negative + total_reviews) \div (2 * total_reviews))

\* round((sentiments["Negative"]/total_reviews)*100, 2), in hundredths.
risk_score(negative, total_reviews) == Round2(100 * negative, total_reviews)

\* ------------------------------------------------------------------------
\* Keywords, aspects and actions
\* ------------------------------------------------------------------------
\* A review text is the sequence of its whitespace-separated pieces.  Words
\* are strings; Spell gives the characters of a word, for its length and
\* for substring tests.
Spell(word) ==
    CASE word = "wait" -> <<"w", "a", "i", "t">>
      [] word = "slow" -> <<"s", "l", "o", "w">>
      [] word = "service" -> <<"s", "e", "r", "v", "i", "c", "e">>
      [] word = "attitude" -> <<"a", "t", "t", "i", "t", "u", "d", "e">>
      [] word = "price" -> <<"p", "r", "i", "c", "e">>
      [] word = "expensive" -> <<"e", "x", "p", "e", "n", "s", "i", "v", "e">>
      [] word = "overpriced" -> <<"o", "v", "e", "r", "p", "r", "i", "c", "e", "d">>
      [] word = "clean" -> <<"c", "l", "e", "a", "n">>
      [] word = "dirty" -> <<"d", "i", "r", "t", "y">>
      [] word = "quality" -> <<"q", "u", "a", "l", "i", "t", "y">>
      [] word = "defect" -> <<"d", "e", "f", "e", "c", "t">>
      [] word = "taste" -> <<"t", "a", "s", "t", "e">>
      [] word = "stock" -> <<"s", "t", "o", "c", "k">>
      [] word = "availability" -> <<"a", "v", "a", "i", "l", "a", "b", "i", "l", "i", "t", "y">>
      [] word = "noise" -> <<"n", "o", "i", "s", "e">>
      [] word = "crowd" -> <<"c", "r", "o", "w", "d">>
      [] word = "payment" -> <<"p", "a", "y", "m", "e", "n", "t">>
      [] word = "app" -> <<"a", "p", "p">>
      [] word = "rude" -> <<"r", "u", "d", "e">>
      [] word = "manager" -> <<"m", "a", "n", "a", "g", "e", "r">>
      [] word = "staff" -> <<"s", "t", "a", "f", "f">>
      [] word = "friendly" -> <<"f", "r", "i", "e", "n", "d", "l", "y">>
      [] word = "helpful" -> <<"h", "e", "l", "p", "f", "u", "l">>
      [] word = "speed" -> <<"s", "p", "e", "e", "d">>
      [] word = "delay" -> <<"d", "e", "l", "a", "y">>
      [] word = "queue" -> <<"q", "u", "e", "u", "e">>
      [] word = "time" -> <<"t", "i", "m", "e">>
      [] word = "late" -> <<"l", "a", "t", "e">>
      [] word = "cheap" -> <<"c", "h", "e", "a", "p">>
      [] word = "value" -> <<"v", "a", "l", "u", "e">>
      [] word = "cleanliness" -> <<"c", "l", "e", "a", "n", "l", "i", "n", "e", "s", "s">>
      [] word = "smell" -> <<"s", "m", "e", "l", "l">>
      [] word = "hygiene" -> <<"h", "y", "g", "i", "e", "n", "e">>
      [] word = "washroom" -> <<"w", "a", "s", "h", "r", "o", "o", "m">>
      [] word = "broken" -> <<"b", "r", "o", "k", "e", "n">>
      [] word = "fresh" -> <<"f", "r", "e", "s", "h">>
      [] word = "stale" -> <<"s", "t", "a", "l", "e">>
      [] word = "cold" -> <<"c", "o", "l", "d">>
      [] word = "sold" -> <<"s", "o", "l", "d">>
      [] word = "out" -> <<"o", "u", "t">>
      [] word = "item" -> <<"i", "t", "e", "m">>
      [] word = "environment" -> <<"e", "n", "v", "i", "r", "o", "n", "m", "e", "n", "t">>
      [] word = "parking" -> <<"p", "a", "r", "k", "i", "n", "g">>
      [] word = "space" -> <<"s", "p", "a", "c", "e">>
      [] word = "ambience" -> <<"a", "m", "b", "i", "e", "n", "c", "e">>
      [] word = "digital" -> <<"d", "i", "g", "i", "t", "a", "l">>
      [] word = "card" -> <<"c", "a", "r", "d">>
      [] word = "terminal" -> <<"t", "e", "r", "m", "i", "n", "a", "l">>
      [] word = "crash" -> <<"c", "r", "a", "s", "h">>
      [] word = "online" -> <<"o", "n", "l", "i", "n", "e">>
      [] word = "wifi" -> <<"w", "i", "f", "i">>
      [] word = "the" -> <<"t", "h", "e">>
      [] word = "was" -> <<"w", "a", "s">>
      [] word = "not" -> <<"n", "o", "t">>
      [] word = "very" -> <<"v", "e", "r", "y">>
      [] word = "ok" -> <<"o", "k">>
      [] word = "no" -> <<"n", "o">>
      [] word = "great" -> <<"g", "r", "e", "a", "t">>
      [] word = "okay" -> <<"o", "k", "a", "y">>
      [] word = "food" -> <<"f", "o", "o", "d">>
      [] word = "can" -> <<"c", "a", "n">>
      [] word = "t" -> <<"t">>
      [] word = "trend_decline" -> <<"t", "r", "e", "n", "d", "_", "d", "e", "c", "l", "i", "n", "e">>
      [] word = "trend_improvement" -> <<"t", "r", "e", "n", "d", "_", "i", "m", "p", "r", "o", "v", "e", "m", "e", "n", "t">>

\* The words the analytics is run on, in alphabetical order.
Alphabet ==
    <<"ambience", "app", "attitude", "availability", "broken", "can",
      "card", "cheap", "clean", "cleanliness", "cold", "crash", "crowd",
      "defect", "delay", "digital", "dirty", "environment", "expensive",
      "food", "fresh", "friendly", "great", "helpful", "hygiene", "item",
      "late", "manager", "no", "noise", "not", "ok", "okay", "online",
      "out", "overpriced", "parking", "payment", "price", "quality",
      "queue", "rude", "service", "slow", "smell", "sold", "space",
      "speed", "staff", "stale", "stock", "t", "taste", "terminal", "the",
      "time", "trend_decline", "trend_improvement", "value", "very",
      "wait", "was", "washroom", "wifi">>

\* The place of a word in alphabetical order.
AlphaRank(word) == CHOOSE i \in DOMAIN Alphabet : Alphabet[i] = word

_STOPWORDS ==
    {"a", "an", "and", "are", "as", "at", "be", "but", "by", "for", "from",
     "in", "is", "it", "just", "not", "of", "on", "or", "our", "really",
     "the", "them", "they", "this", "to", "too", "very", "was", "we",
     "with", "you", "your"}

\* str.lower() of a piece of text or of an aspect name.
Lower(s) ==
    CASE s = "The" -> "the"
      [] s = "Staff" -> "staff"
      [] s = "Rude!" -> "rude!"
      [] s = "Service" -> "service"
      [] s = "Speed" -> "speed"
      [] s = "Price" -> "price"
      [] s = "Cleanliness" -> "cleanliness"
      [] s = "Quality" -> "quality"
      [] s = "Availability" -> "availability"
      [] s = "Environment" -> "environment"
      [] s = "Digital" -> "digital"
      [] OTHER -> s

\* re.sub(r"[^\w\s]", " ", s).split() of one lowered piece: a punctuation
\* character becomes a space, so the piece falls into its words.
Depunct(s) ==
    CASE s = "rude!" -> <<"rude">>
      [] s = "can't" -> <<"can", "t">>
      [] s = " " -> <<>>
      [] OTHER -> <<s>>

\* _normalize_text(text).split()
RECURSIVE _normalize_text(_)
_normalize_text(text) ==
    IF text = <<>> THEN <<>>
    ELSE Depunct(Lower(Head(text))) \o _normalize_text(Tail(text))

\* "w not in _STOPWORDS and len(w) > 2"
IsKeyword(w) == w \notin _STOPWORDS /\ Len(Spell(w)) > 2

extract_keywords(text) == SelectSeq(_normalize_text(text), IsKeyword)

\* A bigram "a b" is the pair <<a, b>>.
extract_bigrams(tokens) ==
    IF Len(tokens) < 2 THEN <<>>
    ELSE [i \in 1..(Len(tokens) - 1) |-> <<tokens[i], tokens[i + 1]>>]

\* The dict in the order of its literal.
ASPECT_LEXICON ==
    <<[aspect |-> "Service",
       lex |-> {"service", "staff", "attitude", "rude", "friendly", "helpful", "manager"}],
      [aspect |-> "Speed",
       lex |-> {"wait", "slow", "delay", "queue", "time", "late"}],
      [aspect |-> "Price",
       lex |-> {"price", "expensive", "cheap", "overpriced", "value"}],
      [aspect |-> "Cleanliness",
       lex |-> {"clean", "dirty", "smell", "hygiene", "washroom"}],
      [aspect |-> "Quality",
       lex |-> {"quality", "defect", "broken", "taste", "fresh", "stale", "cold"}],
      [aspect |-> "Availability",
       lex |-> {"stock", "availability", "sold", "out", "item"}],
      [aspect |-> "Environment",
       lex |-> {"noise", "crowd", "parking", "space", "ambience"}],
      [aspect |-> "Digital",
       lex |-> {"payment", "card", "terminal", "app", "crash", "online", "wifi"}]>>

AspectNames == {ASPECT_LEXICON[i].aspect : i \in DOMAIN ASPECT_LEXICON}

Range(xs) == {xs[i] : i \in DOMAIN xs}

\* hits: the aspects one of whose lexicon words is among the tokens.
Hits(tokens) ==
    {ASPECT_LEXICON[i].aspect : i \in
        {j \in DOMAIN ASPECT_LEXICON : ASPECT_LEXICON[j].lex \cap Range(tokens) # {}}}

map_tokens_to_aspects_per_word(tokens, hash_order) ==
    LET words == SelectSeq(tokens,
                     LAMBDA w : \E i \in DOMAIN ASPECT_LEXICON : w \in ASPECT_LEXICON[i].lex)
    IN  [k \in DOMAIN words |->
            ASPECT_LEXICON[CHOOSE i \in DOMAIN ASPECT_LEXICON :
                               words[k] \in ASPECT_LEXICON[i].lex].aspect]

\* map_tokens_to_aspects: list(hits) lists a set of strings in the order of
\* their hashes, which is fixed within one process and differs between
\* processes; hash_order is that order of the aspect names.
map_tokens_to_aspects(tokens, hash_order) ==
    SelectSeq(hash_order, LAMBDA a : a \in Hits(tokens))

\* The dict in the order of its literal; an action is named by its first
\* words.
ACTION_MAP ==
    <<[needle |-> "wait", action |-> "Optimize peak-hour staffing and"],
      [needle |-> "slow", action |-> "Introduce service SLAs and"],
      [needle |-> "service", action |-> "Launch a service excellence"],
      [needle |-> "attitude", action |-> "Coach frontline staff on"],
      [needle |-> "price", action |-> "Review pricing strategy vs"],
      [needle |-> "expensive", action |-> "Consider tiered pricing, bundles"],
      [needle |-> "overpriced", action |-> "Run a competitive pricing"],
      [needle |-> "clean", action |-> "Increase cleanliness checks and"],
      [needle |-> "dirty", action |-> "Run a deep-clean schedule"],
      [needle |-> "quality", action |-> "Audit suppliers and batch"],
      [needle |-> "defect", action |-> "Add incoming QC and"],
      [needle |-> "taste", action |-> "Run blind A/B tests"],
      [needle |-> "stock", action |-> "Improve demand forecasting; set"],
      [needle |-> "availability", action |-> "Share stockout dashboards and"],
      [needle |-> "noise", action |-> "Introduce quiet hours /"],
      [needle |-> "crowd", action |-> "Implement reservation windows and"],
      [needle |-> "payment", action |-> "Add more payment options"],
      [needle |-> "app", action |-> "Improve app reliability, add"],
      [needle |-> "rude", action |-> "Reinforce code-of-conduct and coaching"],
      [needle |-> "manager", action |-> "Increase manager-on-duty coverage and"]>>

GenericAction == "Conduct root-cause analysis"

\* "needle in k": needle is a substring of k.
Contains(needle, k) ==
    \E off \in 0..(Len(k) - Len(needle)) : SubSeq(k, off + 1, off + Len(needle)) = needle

\* The loop of _action_for_keyword for a lowered keyword k: the action of
\* the first needle, in the order of the table, that k contains.
FirstNeedle(k) ==
    LET found == {i \in DOMAIN ACTION_MAP : Contains(Spell(ACTION_MAP[i].needle), Spell(k))}
    IN  IF found = {} THEN GenericAction
        ELSE ACTION_MAP[CHOOSE i \in found : \A j \in found : i <= j].action

\* FirstNeedle of every word, worked out once.
ActionOfWord == [k \in Range(Alphabet) |-> FirstNeedle(k)]

_action_for_keyword(keyword) == ActionOfWord[Lower(keyword)]

\* neg_share is the fraction num / den; "neg_share >= 0.35" is
\* 100 * num >= 35 * den.
_priority_from_counts_and(mentions, neg_share) ==
    IF mentions >= 5 /\ 100 * neg_share.num >= 35 * neg_share.den THEN "High"
    ELSE IF mentions >= 3 /\ 100 * neg_share.num >= 25 * neg_share.den THEN "Medium"
    ELSE "Low"

_priority_from_counts(mentions, neg_share) ==
    IF mentions >= 5 \/ 100 * neg_share.num >= 35 * neg_share.den THEN "High"
    ELSE IF mentions >= 3 \/ 100 * neg_share.num >= 25 * neg_share.den THEN "Medium"
    ELSE "Low"

SortAsc(items, keys) ==
    LET rank(i) == 1 + Cardinality({j \in DOMAIN items :
                        \/ keys[j] < keys[i]
                        \/ keys[j] = keys[i] /\ j < i})
    IN  [p \in 1..Len(items) |-> items[CHOOSE i \in DOMAIN items : rank(i) = p]]

\* A stable sort in descending order of key: sorted(..., reverse=True) and
\* Counter.most_common keep items of equal key in their first order.  The
\* item at index i, of key keys[i], comes after the items of a larger key
\* and the earlier items of the same key.
SortDesc(items, keys) ==
    LET rank(i) == 1 + Cardinality({j \in DOMAIN items :
                        \/ keys[j] > keys[i]
                        \/ keys[j] = keys[i] /\ j < i})
    IN  [p \in 1..Len(items) |-> items[CHOOSE i \in DOMAIN items : rank(i) = p]]

\* kv[1].get("neg", 0) - kv[1].get("pos", 0)
Gap(counts) == counts.neg - counts.pos

Mentions(entry) == entry.mentions

AspectsInOrder(aspect_breakdown) == aspect_breakdown

\* sorted(aspect_breakdown.items(), key=gap, reverse=True); the dict is a
\* list of [aspect, pos, neg] in insertion order.
AspectsByGap(aspect_breakdown) ==
    SortDesc(aspect_breakdown,
             [i \in DOMAIN aspect_breakdown |-> Gap(aspect_breakdown[i])])

\* neg_kw_counter.most_common(n); the counter is a list of
\* [keyword, mentions] in insertion order.
most_common(counter, n) ==
    LET all == SortDesc(counter, [i \in DOMAIN counter |-> Mentions(counter[i])])
    IN  SubSeq(all, 1, IF Len(all) < n THEN Len(all) ELSE n)

\* "if neg <= pos: continue"
AspectHasIssue(counts) == ~(counts.neg <= counts.pos)

TrendFirst(sig, recs, decline, improvement) ==
    IF sig = "declining" THEN recs \o <<decline>>
    ELSE IF sig = "improving" THEN recs \o <<improvement>>
    ELSE recs

\* recs.insert(0, ...) when declining, recs.append(...) when improving.
WithTrendMeta(sig, recs, decline, improvement) ==
    IF sig = "declining" THEN <<decline>> \o recs
    ELSE IF sig = "improving" THEN recs \o <<improvement>>
    ELSE recs

\* _generate_ai_recommendations: of each recommendation the weak area, the
\* mentions, the priority and what the rationale is written from.
_generate_ai_recommendations(sentiments, neg_kw_counter, trend_signal, aspect_breakdown) ==
    LET sum == sentiments.Positive + sentiments.Neutral + sentiments.Negative
        total == IF sum = 0 THEN 1 ELSE sum
        neg_share == [num |-> sentiments.Negative, den |-> total]
        aspects == SelectSeq(AspectsByGap(aspect_breakdown), AspectHasIssue)
        keywords == most_common(neg_kw_counter, 8)
        aspect_recs == [i \in 1..Len(aspects) |->
            [weak_area |-> aspects[i].aspect,
             issue_mentions |-> {aspects[i].neg},
             priority |-> _priority_from_counts(aspects[i].neg, neg_share),
             recommended_action |-> _action_for_keyword(Lower(aspects[i].aspect)),
             rationale |-> [about |-> "aspect", neg |-> aspects[i].neg,
                            pos |-> aspects[i].pos]]]
        keyword_recs == [i \in 1..Len(keywords) |->
            [weak_area |-> keywords[i].keyword,
             issue_mentions |-> {keywords[i].mentions},
             priority |-> _priority_from_counts(keywords[i].mentions, neg_share),
             recommended_action |-> _action_for_keyword(keywords[i].keyword),
             rationale |-> [about |-> "keyword", neg |-> keywords[i].mentions,
                            pos |-> 0]]]
        decline == [weak_area |-> "trend_decline", issue_mentions |-> {},
                    priority |-> "High",
                    recommended_action |-> "Launch a rapid response",
                    rationale |-> [about |-> "trend", neg |-> 0, pos |-> 0]]
        improvement == [weak_area |-> "trend_improvement", issue_mentions |-> {},
                        priority |-> "Low",
                        recommended_action |-> "Double down on what works",
                        rationale |-> [about |-> "trend", neg |-> 0, pos |-> 0]]
    IN  WithTrendMeta(trend_signal.signal, aspect_recs \o keyword_recs,
                      decline, improvement)

RECURSIVE Flatten(_)
Flatten(seqs) == IF seqs = <<>> THEN <<>> ELSE Head(seqs) \o Flatten(Tail(seqs))

\* The indexes of the first occurrences, in order.
Firsts(items) ==
    SelectSeq([i \in DOMAIN items |-> i],
              LAMBDA i : \A j \in 1..(i - 1) : items[j] # items[i])

\* Counter(tokens): a dict, so in the order the tokens were first met.
Counter(tokens) ==
    LET idx == Firsts(tokens)
    IN  [k \in DOMAIN idx |->
            [keyword |-> tokens[idx[k]],
             mentions |-> Cardinality({j \in DOMAIN tokens : tokens[j] = tokens[idx[k]]})]]

\* aspect_counter: a defaultdict, so in the order the aspects were first
\* met; hits is the list of [aspect, sentiment], one per review and aspect.
AspectCounter(hits) ==
    LET names == [i \in DOMAIN hits |-> hits[i].aspect]
        idx == Firsts(names)
        n(a, label) == Cardinality({j \in DOMAIN hits :
                            hits[j].aspect = a /\ hits[j].sentiment = label})
    IN  [k \in DOMAIN idx |->
            [aspect |-> names[idx[k]],
             pos |-> n(names[idx[k]], "Positive"),
             neg |-> n(names[idx[k]], "Negative"),
             neu |-> n(names[idx[k]], "Neutral")]]

\* get_review_summary_data: amounts with two decimals are in hundredths.
get_review_summary_data(c, start_override, end_override) ==
    LET win == ResolveWindow(c, start_override, end_override)
        windowed == Filter(c.reviews, win)
        ratings == {i \in DOMAIN windowed : windowed[i].rating # {}}
        rated == SumSeq([i \in 1..Len(windowed) |-> RatingOrZero(windowed[i])])
        trend_data_list == MonthPoints(windowed,
            {MonthOf(The(_parse_review_date(windowed[i]))) : i \in DOMAIN windowed})
        sentiment == [i \in DOMAIN windowed |-> classify_sentiment(windowed[i].rating)]
        tokens == [i \in DOMAIN windowed |-> extract_keywords(windowed[i].text)]
        aspects == [i \in DOMAIN windowed |->
                       map_tokens_to_aspects(tokens[i], c.hash_order)]
        aspect_counter == AspectCounter(Flatten([i \in DOMAIN windowed |->
            [k \in DOMAIN aspects[i] |->
                [aspect |-> aspects[i][k], sentiment |-> sentiment[i]]]]))
        pos_tokens == Flatten([i \in DOMAIN windowed |->
            IF sentiment[i] = "Positive" THEN tokens[i] ELSE <<>>])
        neg_tokens == Flatten([i \in DOMAIN windowed |->
            IF sentiment[i] = "Negative" THEN tokens[i] ELSE <<>>])
        neg_bigrams == Flatten([i \in DOMAIN windowed |->
            IF sentiment[i] = "Negative" THEN extract_bigrams(tokens[i]) ELSE <<>>])
        pos_counter == Counter(pos_tokens)
        neg_counter == Counter(neg_tokens)
        neg_bigram_counter == Counter(neg_bigrams)
        top_negative == most_common(neg_counter, 12)
        sentiments == [l \in {"Positive", "Neutral", "Negative"} |->
                          CountLabel(windowed, l)]
        trend_signal == _detect_trend(trend_data_list)
    IN  IF windowed = <<>>
        THEN [op |-> "summary", window |-> win, windowed |-> <<>>,
              total_reviews |-> 0, avg_rating |-> 0,
              sentiments |-> [l \in {"Positive", "Neutral", "Negative"} |-> 0],
              positive_keywords |-> <<>>, negative_keywords |-> <<>>,
              trend_data |-> <<>>, weak_areas |-> <<>>, strength_areas |-> <<>>,
              aspect_breakdown |-> <<>>, top_phrases_negative |-> <<>>,
              ai_recommendations |-> <<>>,
              trend |-> [signal |-> "insufficient_data", delta |-> 0],
              risk_score |-> 0, risk_level |-> "Low"]
        ELSE [op |-> "summary", window |-> win, windowed |-> windowed,
              total_reviews |-> Len(windowed),
              avg_rating |-> IF ratings = {} THEN 0
                             ELSE Round2(rated, Cardinality(ratings)),
              sentiments |-> sentiments,
              positive_keywords |->
                  [k \in DOMAIN most_common(pos_counter, 12) |->
                      most_common(pos_counter, 12)[k].keyword],
              negative_keywords |-> top_negative,
              trend_data |-> trend_data_list,
              weak_areas |-> top_negative,
              strength_areas |-> most_common(pos_counter, 8),
              aspect_breakdown |-> aspect_counter,
              top_phrases_negative |-> most_common(neg_bigram_counter, 10),
              ai_recommendations |-> _generate_ai_recommendations(sentiments,
                  neg_counter, trend_signal, aspect_counter),
              trend |-> trend_signal,
              risk_score |-> risk_score(CountLabel(windowed, "Negative"), Len(windowed)),
              risk_level |-> _risk_level(
                  risk_score(CountLabel(windowed, "Negative"), Len(windowed)))]

\* Orders list(set) lists the aspect names in: one per process.
HashOrders ==
    {[i \in DOMAIN ASPECT_LEXICON |-> ASPECT_LEXICON[i].aspect],
     [i \in DOMAIN ASPECT_LEXICON |->
         ASPECT_LEXICON[Len(ASPECT_LEXICON) + 1 - i].aspect]}

\* Stored reviews the analytics is run on.
ReviewPool ==
    { [text |-> <<"great", "service">>, rating |-> {5},
       review_date |-> {FIXED_DEFAULT_START}],
      [text |-> <<"slow", "service">>, rating |-> {2},
       review_date |-> {At(0, TicksPerDay - 1)}],
      [text |-> <<>>, rating |-> {},
       review_date |-> {At(MaxDay - 1, TicksPerDay - 1)}],
      [text |-> <<"okay">>, rating |-> {3}, review_date |-> {}],
      [text |-> <<"friendly", "staff">>, rating |-> {4},
       review_date |-> {At(MaxDay, 0)}] }

\* Date strings a caller passes: none, text in no accepted format, and each
\* calendar day in one of the accepted formats.
DateArgs ==
    {{}} \cup {{[fmt |-> "%m.%d.%Y", day |-> 0]}}
    \cup {{[fmt |-> IF d % 3 = 0 THEN "%Y-%m-%d"
                    ELSE IF d % 3 = 1 THEN "%d/%m/%Y" ELSE "%d-%m-%Y",
            day |-> d]} : d \in Days}

\* REVIEWS_DATE_FROM and REVIEWS_DATE_TO as os.getenv returns them.
EnvFrom == {{}, {[fmt |-> "%Y-%m-%d", day |-> MaxDay - 1]}}
EnvTo == {{}, {[fmt |-> "%Y-%m-%d", day |-> 0]}}

\* datetime.now(timezone.utc): the day of the fixed default start, and a
\* later day.
Clock == {At(FixedDefaultDay, TicksPerDay - 1), At(MaxDay, TicksPerDay - 1)}

\* reviews_summary: both date strings parsed, the company's reviews read,
\* get_review_summary_data called.
Summary ==
    /\ call = NoCall
    /\ \E date_from \in DateArgs, date_to \in DateArgs,
          env_from \in EnvFrom, env_to \in EnvTo, now \in Clock,
          reviews \in SeqsUpTo(ReviewPool, MaxReviews),
          hash_order \in HashOrders :
         LET c == [op |-> "summary", date_from |-> date_from, date_to |-> date_to,
                   env_from |-> env_from, env_to |-> env_to, now |-> now,
                   reviews |-> reviews, hash_order |-> hash_order]
         IN  /\ call' = c
             /\ resp' = get_review_summary_data(c, _try_parse_date_any(date_from),
                                                _try_parse_date_any(date_to))
    /\ UNCHANGED ingest

\* classify_sentiment applied to one rating.
Classify ==
    /\ call = NoCall
    /\ \E rating \in {{}} \cup {{n} : n \in (-1)..MaxRating} :
         /\ call' = [op |-> "classify", rating |-> rating]
         /\ resp' = [op |-> "classify", label |-> classify_sentiment(rating)]
    /\ UNCHANGED ingest

\* The answer is sent; the next call is taken.
Deliver ==
    /\ call # NoCall
    /\ call' = NoCall
    /\ resp' = NoCall
    /\ UNCHANGED ingest

InitAnalytics ==
    /\ Init
    /\ useGbp = FALSE

NextAnalytics ==
    \/ Summary
    \/ Classify
    \/ Deliver

SpecAnalytics == InitAnalytics /\ [][NextAnalytics]_vars

\* ========================================================================
\* Review analytics: trend, risk and recommendations
\* ========================================================================
\* Entries of the negative keyword counter, and of the aspect breakdown.
MaxAreas == 2

\* Monthly averages of a trend series, in hundredths.
TrendRatings == {200, 229, 230, 300}

\* Orders the points of a series are passed in.
Orders == {"ascending", "descending", "rotated"}

Arrange(points, order) ==
    LET n == Len(points)
    IN  IF order = "descending" THEN [i \in 1..n |-> points[n + 1 - i]]
        ELSE IF order = "rotated" THEN [i \in 1..n |-> points[(i % n) + 1]]
        ELSE points

\* _detect_trend applied to a series of monthly points of months 1..n.
DetectTrend ==
    /\ call = NoCall
    /\ \E n \in 0..MaxPoints, order \in Orders :
         \E avgs \in [1..n -> TrendRatings] :
           LET series == Arrange([i \in 1..n |->
                   [month |-> i, avg_rating |-> avgs[i], count |-> 1]], order)
               sig == _detect_trend(series)
           IN  /\ call' = [op |-> "trend", trend_data_list |-> series,
                           order |-> order]
               /\ resp' = [op |-> "trend", signal |-> sig.signal, delta |-> sig.delta]
    /\ UNCHANGED ingest

\* Ratings of the reviews of a company's history.
HistoryRatings == {{}, {1}, {3}, {5}}

\* reviews_summary for a company with one review in each of its first n
\* months, asked for the window of the whole history.  The reviews have no
\* text, so no aspect is ever listed.
SummaryHistory ==
    /\ call = NoCall
    /\ \E n \in 0..MaxPoints :
         \E rs \in [1..n -> HistoryRatings] :
           LET last == MaxPoints * DaysPerMonth
               hash_order == CHOOSE h \in HashOrders : TRUE
               c == [op |-> "summary",
                     date_from |-> {[fmt |-> "%Y-%m-%d", day |-> 0]},
                     date_to |-> {[fmt |-> "%Y-%m-%d", day |-> last]},
                     env_from |-> {}, env_to |-> {},
                     now |-> At(last, TicksPerDay - 1),
                     hash_order |-> hash_order,
                     reviews |-> [i \in 1..n |->
                         [text |-> <<>>, rating |-> rs[i],
                          review_date |-> {At((i - 1) * DaysPerMonth, 0)}]]]
           IN  /\ call' = c
               /\ resp' = get_review_summary_data(c, _try_parse_date_any(c.date_from),
                                                  _try_parse_date_any(c.date_to))
    /\ UNCHANGED ingest

\* Sentiment counts of windowed review sets: how many are Negative, of how
\* many.
RiskCounts ==
    {c \in [negative : 0..3, total : {1, 2, 3, 199, 200}] : c.negative <= c.total}

Signals == {"insufficient_data", "improving", "stable", "declining"}

\* Lines 587-588 of get_review_summary_data for the summaries of two
\* review sets, each with its sentiment counts and its trend signal.
ScoreRisk ==
    /\ call = NoCall
    /\ \E a \in RiskCounts, b \in RiskCounts, sa \in Signals, sb \in Signals :
         LET score(x) == [risk_score |-> risk_score(x.negative, x.total),
                          risk_level |-> _risk_level(risk_score(x.negative, x.total))]
         IN  /\ call' = [op |-> "risk", a |-> a, b |-> b,
                         signal_a |-> sa, signal_b |-> sb]
             /\ resp' = [op |-> "risk", a |-> score(a), b |-> score(b)]
    /\ UNCHANGED ingest

\* Sentiment counts the recommendations are generated from.
SentimentPool ==
    { [Positive |-> 0, Neutral |-> 0, Negative |-> 0],
      [Positive |-> 4, Neutral |-> 0, Negative |-> 1],
      [Positive |-> 2, Neutral |-> 1, Negative |-> 1],
      [Positive |-> 13, Neutral |-> 0, Negative |-> 7] }

KeywordPool == {[keyword |-> k, mentions |-> m] : k \in {"wait", "rude"}, m \in {2, 3, 5}}

AspectPool ==
    {[aspect |-> a, pos |-> c[1], neg |-> c[2]] :
        a \in {"Service", "Speed", "Price"},
        c \in {<<0, 1>>, <<1, 1>>, <<0, 3>>, <<1, 5>>}}

\* The keys of a dict are distinct.
DistinctKeys(keys) ==
    \A i, j \in DOMAIN keys : keys[i] = keys[j] => i = j

KeywordOf(entry) == entry.keyword

AspectOf(entry) == entry.aspect

TrendOf(sig) ==
    [signal |-> sig,
     delta |-> IF sig = "declining" THEN -100 ELSE IF sig = "improving" THEN 100 ELSE 0]

\* _generate_ai_recommendations applied to counts.
Recommend ==
    /\ call = NoCall
    /\ \E sentiments \in SentimentPool, sig \in Signals,
          neg_kw_counter \in SeqsUpTo(KeywordPool, MaxAreas),
          aspect_breakdown \in SeqsUpTo(AspectPool, MaxAreas) :
         /\ DistinctKeys([i \in DOMAIN neg_kw_counter |-> KeywordOf(neg_kw_counter[i])])
         /\ DistinctKeys([i \in DOMAIN aspect_breakdown |-> AspectOf(aspect_breakdown[i])])
         /\ call' = [op |-> "recommend", sentiments |-> sentiments,
                     neg_kw_counter |-> neg_kw_counter,
                     trend_signal |-> TrendOf(sig),
                     aspect_breakdown |-> aspect_breakdown]
         /\ resp' = [op |-> "recommend",
                     recs |-> _generate_ai_recommendations(sentiments,
                         neg_kw_counter, TrendOf(sig), aspect_breakdown)]
    /\ UNCHANGED ingest

NextInsights ==
    \/ DetectTrend
    \/ SummaryHistory
    \/ ScoreRisk
    \/ Recommend
    \/ Deliver

SpecInsights == InitAnalytics /\ [][NextInsights]_vars

\* ========================================================================
\* Review analytics: keywords, the owner action plan, the action table
\* ========================================================================
\* Reviews with text, all dated within the default window.
TextReviewPool ==
    { [text |-> <<"wait", "wait", "wait", "wait", "wait", "wait", "rude", "rude">>,
       rating |-> {1}, review_date |-> {At(FixedDefaultDay, 1)}],
      [text |-> <<"no", "wait", "not", "rude">>,
       rating |-> {5}, review_date |-> {At(FixedDefaultDay, 1)}],
      [text |-> <<"slow", "dirty", "cold", "stale", "noise", "crowd", "broken",
                  "expensive", "overpriced">>,
       rating |-> {2}, review_date |-> {At(FixedDefaultDay, 1)}],
      [text |-> <<"The", "Staff", "was", "Rude!", "ok">>,
       rating |-> {1}, review_date |-> {At(FixedDefaultDay, 1)}],
      [text |-> <<"great", "price", "value">>,
       rating |-> {}, review_date |-> {At(FixedDefaultDay, 1)}] }

\* reviews_summary, with no dates given, for a company whose reviews have
\* text.
SummaryTexts ==
    /\ call = NoCall
    /\ \E reviews \in SeqsUpTo(TextReviewPool, MaxReviews), hash_order \in HashOrders :
         LET c == [op |-> "summary", date_from |-> {}, date_to |-> {},
                   env_from |-> {}, env_to |-> {},
                   now |-> At(MaxDay, TicksPerDay - 1),
                   reviews |-> reviews, hash_order |-> hash_order]
         IN  /\ call' = c
             /\ resp' = get_review_summary_data(c, _try_parse_date_any(c.date_from),
                                                _try_parse_date_any(c.date_to))
    /\ UNCHANGED ingest

\* The ratings of Scenario A.
ScenarioA == <<5, 5, 5, 4, 3, 2, 1, 1, 5, 4>>

\* reviews_summary for a company whose reviews are the first k of
\* Scenario A, stored in that order or in the opposite one.
SummaryRatings ==
    /\ call = NoCall
    /\ \E k \in 0..Len(ScenarioA), backwards \in BOOLEAN :
         LET c == [op |-> "summary", date_from |-> {}, date_to |-> {},
                   env_from |-> {}, env_to |-> {},
                   now |-> At(MaxDay, TicksPerDay - 1),
                   hash_order |-> CHOOSE h \in HashOrders : TRUE,
                   reviews |-> [i \in 1..k |->
                       [text |-> <<>>,
                        rating |-> {ScenarioA[IF backwards THEN k + 1 - i ELSE i]},
                        review_date |-> {At(FixedDefaultDay, 1)}]]]
         IN  /\ call' = c
             /\ resp' = get_review_summary_data(c, _try_parse_date_any(c.date_from),
                                                _try_parse_date_any(c.date_to))
    /\ UNCHANGED ingest

RECURSIVE PlanLoopNoDedup(_, _, _)
PlanLoopNoDedup(recs, seen, plan) ==
    IF recs = <<>> THEN plan
    ELSE LET rec == Head(recs)
             plan2 == Append(plan, [area |-> rec.weak_area,
                                    priority |-> rec.priority,
                                    what_to_do |-> rec.recommended_action])
         IN  IF Len(plan2) >= 5 THEN plan2
             ELSE PlanLoopNoDedup(Tail(recs), seen, plan2)

\* The loop of reviews_recommendations over the recommendations still to
\* visit: an entry whose area was not seen is added; the loop ends once the
\* plan has 5 entries.
RECURSIVE PlanLoop(_, _, _)
PlanLoop(recs, seen, plan) ==
    IF recs = <<>> THEN plan
    ELSE LET rec == Head(recs)
             key == rec.weak_area
             add == key \notin seen
             plan2 == IF add
                      THEN Append(plan, [area |-> rec.weak_area,
                                         priority |-> rec.priority,
                                         what_to_do |-> rec.recommended_action])
                      ELSE plan
         IN  IF Len(plan2) >= 5 THEN plan2
             ELSE PlanLoop(Tail(recs), seen \cup {key}, plan2)

\* Texts of the negative reviews of a history.
HistoryTexts ==
    { <<>>,
      <<"trend_decline", "wait", "food", "great", "okay">>,
      <<"slow", "dirty", "cold", "noise", "overpriced">> }

\* reviews_recommendations for a company with one review in each of its
\* first n months, rated 1 or 5, the reviews rated 1 all having one text.
Recommendations ==
    /\ call = NoCall
    /\ \E n \in 0..MaxPoints, text \in HistoryTexts, hash_order \in HashOrders :
         \E rs \in [1..n -> {1, 5}] :
           LET last == MaxPoints * DaysPerMonth
               c == [op |-> "recommendations",
                     date_from |-> {[fmt |-> "%Y-%m-%d", day |-> 0]},
                     date_to |-> {[fmt |-> "%Y-%m-%d", day |-> last]},
                     env_from |-> {}, env_to |-> {},
                     now |-> At(last, TicksPerDay - 1),
                     hash_order |-> hash_order,
                     reviews |-> [i \in 1..n |->
                         [text |-> IF rs[i] = 1 THEN text ELSE <<>>,
                          rating |-> {rs[i]},
                          review_date |-> {At((i - 1) * DaysPerMonth, 0)}]]]
           IN  \E summary \in {get_review_summary_data(c,
                                   _try_parse_date_any(c.date_from),
                                   _try_parse_date_any(c.date_to))} :
               /\ call' = c
               /\ resp' = [op |-> "recommendations",
                           window |-> summary.window,
                           risk_score |-> summary.risk_score,
                           risk_level |-> summary.risk_level,
                           trend |-> summary.trend,
                           owner_action_plan |->
                               PlanLoop(summary.ai_recommendations, {}, <<>>),
                           aspect_breakdown |-> summary.aspect_breakdown,
                           top_negative_phrases |-> summary.top_phrases_negative,
                           summary |-> summary]
    /\ UNCHANGED ingest

\* Keywords an action is looked up for: the needles of the table, aspect
\* names, and words that contain no needle.
LookupPool ==
    {ACTION_MAP[i].needle : i \in DOMAIN ACTION_MAP}
    \cup AspectNames \cup {"food", "great", "cold", "trend_decline"}

\* _action_for_keyword applied to one keyword.
ActionFor ==
    /\ call = NoCall
    /\ \E keyword \in LookupPool :
         /\ call' = [op |-> "action", keyword |-> keyword]
         /\ resp' = [op |-> "action", action |-> _action_for_keyword(keyword)]
    /\ UNCHANGED ingest

NextReports ==
    \/ SummaryTexts
    \/ SummaryRatings
    \/ Recommendations
    \/ ActionFor
    \/ Deliver

SpecReports == InitAnalytics /\ [][NextReports]_vars

\* ------------------------------------------------------------------------
\* Analytics: claims
\* ------------------------------------------------------------------------
Labels == {"Positive", "Neutral", "Negative"}

\* The default start in force: REVIEWS_DATE_FROM when it parses, otherwise
\* the fixed date; and the default end: REVIEWS_DATE_TO when it parses,
\* otherwise the clock.
DefaultStart(c) == OrElse(_try_parse_date_any(c.env_from), FIXED_DEFAULT_START)
DefaultEnd(c) == OrElse(_try_parse_date_any(c.env_to), c.now)

\* The reviews of the call whose date d satisfies start <= d <= end.
DatedWithin(c, win) ==
    {i \in DOMAIN c.reviews :
        \E d \in c.reviews[i].review_date : win[1] <= d /\ d <= win[2]}

\* C6: classify_sentiment is total and decided by the rating alone: Neutral
\* for an absent rating; for an integer r, Positive iff r >= 4, Neutral iff
\* r = 3, Negative iff r <= 2.
C6_SentimentByRating ==
    resp.op = "classify" =>
        /\ resp.label \in Labels
        /\ call.rating = {} => resp.label = "Neutral"
        /\ \A r \in call.rating :
              /\ resp.label = "Positive" <=> r >= 4
              /\ resp.label = "Neutral" <=> r = 3
              /\ resp.label = "Negative" <=> r <= 2

C6_Witness ==
    /\ resp.op = "classify"
    /\ call.rating = {4}
    /\ resp.label = "Positive"

\* C7: the summary counts exactly the reviews dated within [start, end],
\* both bounds included, in total_reviews, in the sentiment counts and in
\* the monthly series; a review without timestamp is in none of them.
C7_CountsExactlyTheWindow ==
    resp.op = "summary" =>
        LET within == DatedWithin(call, resp.window)
            rated(l) == {i \in within :
                           LET r == call.reviews[i].rating
                           IN  CASE l = "Positive" -> \E n \in r : n >= 4
                                 [] l = "Negative" -> \E n \in r : n <= 2
                                 [] OTHER -> r = {} \/ r = {3}}
            points == resp.trend_data
        IN  /\ resp.total_reviews = Cardinality(within)
            /\ \A l \in Labels : resp.sentiments[l] = Cardinality(rated(l))
            /\ \A p, q \in DOMAIN points : p < q => points[p].month < points[q].month
            /\ \A p \in DOMAIN points :
                  /\ points[p].count > 0
                  /\ points[p].count =
                       Cardinality({i \in within :
                          MonthOf(The(call.reviews[i].review_date)) = points[p].month})
            /\ \A i \in within :
                  \E p \in DOMAIN points :
                      points[p].month = MonthOf(The(call.reviews[i].review_date))

\* A review dated exactly at the end bound is counted next to one without
\* timestamp that is not.
C7_Witness ==
    /\ resp.op = "summary"
    /\ resp.total_reviews = 1
    /\ Len(call.reviews) = 2
    /\ \E i \in DOMAIN call.reviews : call.reviews[i].review_date = {}
    /\ \E i \in DOMAIN call.reviews : call.reviews[i].review_date = {resp.window[2]}

\* C8: whatever the defaults, the configuration and the caller give, the
\* window has start <= end: two caller bounds given in the wrong order are
\* swapped, and so are the two defaults.
C8_WindowOrdered ==
    resp.op = "summary" =>
        LET from == _try_parse_date_any(call.date_from)
            to == _try_parse_date_any(call.date_to)
            lo(a, b) == IF a <= b THEN a ELSE b
            hi(a, b) == IF a <= b THEN b ELSE a
        IN  /\ resp.window[1] <= resp.window[2]
            /\ (from # {} /\ to # {}) =>
                  resp.window = <<lo(The(from), The(to)), hi(The(from), The(to))>>
            /\ (from = {} /\ to = {}) =>
                  resp.window = <<lo(DefaultStart(call), DefaultEnd(call)),
                                  hi(DefaultStart(call), DefaultEnd(call))>>

\* The caller gives an end before the start.
C8_Witness ==
    /\ resp.op = "summary"
    /\ \E f \in call.date_from, t \in call.date_to :
          /\ f.fmt \in DateFormats /\ t.fmt \in DateFormats
          /\ t.day < f.day
          /\ resp.window = <<At(t.day, 0), At(f.day, 0)>>

C10_EndDayIncluded ==
    resp.op = "summary" =>
        \A f \in call.date_from, t \in call.date_to :
            (f.fmt \in DateFormats /\ t.fmt \in DateFormats /\ f.day <= t.day) =>
                /\ resp.window[1] = At(f.day, 0)
                /\ \A i \in DOMAIN call.reviews :
                      (\E d \in call.reviews[i].review_date : DayOf(d) = t.day) =>
                          \E j \in DOMAIN resp.windowed :
                              resp.windowed[j] = call.reviews[i]


\* ------------------------------------------------------------------------
\* Trend, risk and recommendations: claims
\* ------------------------------------------------------------------------

\* A date string that is given and matches none of the accepted formats.
Unparseable(value) == value # {} /\ _try_parse_date_any(value) = {}

\* C11: a summary request with a date string that matches none of the
\* accepted formats ends in a validation failure; it is not answered with a
\* summary.
C11_UnparseableDateRejected ==
    (call.op = "summary" /\ (Unparseable(call.date_from) \/ Unparseable(call.date_to)))
        => resp.op # "summary"

SignalMatches(n, signal, delta) ==
    /\ n < 3 => signal = "insufficient_data" /\ delta = 0
    /\ n >= 3 =>
        /\ signal \in {"declining", "improving", "stable"}
        /\ signal = "declining" <=> delta <= -30
        /\ signal = "improving" <=> delta >= 30
        /\ signal = "stable" <=> (-30 < delta /\ delta < 30)

\* C12: the trend signal is determined by the number of monthly points and
\* the delta: fewer than 3 points give insufficient_data and delta 0.0; 3 or
\* more give declining iff delta <= -0.3, improving iff delta >= +0.3 and
\* stable otherwise.
C12_SignalFromCountAndDelta ==
    /\ call.op = "trend" =>
         SignalMatches(Len(call.trend_data_list), resp.signal, resp.delta)
    /\ resp.op = "summary" =>
         SignalMatches(Len(resp.trend_data), resp.trend.signal, resp.trend.delta)

C12_Witness ==
    /\ call.op = "trend"
    /\ Len(call.trend_data_list) >= 6
    /\ resp.delta = -30
    /\ resp.signal = "declining"

\* The sum of the averages of the points of months lo..hi, wherever they
\* stand in the series.
SumOfMonths(series, lo, hi) ==
    SumSeq([i \in 1..Len(series) |->
              IF lo <= series[i].month /\ series[i].month <= hi
              THEN series[i].avg_rating ELSE 0])

AvgOfMonth(series, m) == SumOfMonths(series, m, m)

\* C13: for a series of 6 or more monthly points, in whatever order they
\* are passed, delta is the mean of the 3 latest months minus the mean of
\* the 3 months before them, rounded to 2 decimals; the averages
\* 3.0, 3.0, 3.0, 2.0, 2.0, 2.0 give delta -1.0 and declining.
C13_DeltaOfLastThreeVsPriorThree ==
    (call.op = "trend" /\ Len(call.trend_data_list) >= 6) =>
        LET series == call.trend_data_list
            n == Len(series)
        IN  /\ resp.delta = RoundSigned(SumOfMonths(series, n - 2, n)
                                        - SumOfMonths(series, n - 5, n - 3), 3)
            /\ (/\ n = 6
                /\ \A m \in 1..3 : AvgOfMonth(series, m) = 300
                /\ \A m \in 4..6 : AvgOfMonth(series, m) = 200)
               => (resp.delta = -100 /\ resp.signal = "declining")

C13_Witness ==
    /\ call.op = "trend"
    /\ call.order = "descending"
    /\ Len(call.trend_data_list) >= 6
    /\ LET series == call.trend_data_list
           n == Len(series)
       IN  /\ \A m \in (n - 5)..(n - 3) : AvgOfMonth(series, m) = 300
           /\ \A m \in (n - 2)..n : AvgOfMonth(series, m) = 200
    /\ resp.delta = -100
    /\ resp.signal = "declining"

\* C14: for a series of 3, 4 or 5 monthly points, delta is the average of
\* the last month minus the average of the first month, and the signal
\* follows from that delta.
C14_SparseDeltaLastVsFirst ==
    (call.op = "trend" /\ Len(call.trend_data_list) \in 3..5) =>
        LET series == call.trend_data_list
            n == Len(series)
            d == AvgOfMonth(series, n) - AvgOfMonth(series, 1)
        IN  /\ resp.delta = d
            /\ d <= -30 => resp.signal = "declining"
            /\ d >= 30 => resp.signal = "improving"

\* C15: the risk score of a summary is the negative share of the windowed
\* reviews times 100, plus 10 when the trend signal is declining.
C15_DecliningAddsBonus ==
    (resp.op = "summary" /\ resp.total_reviews > 0) =>
        resp.risk_score = Round2(100 * resp.sentiments.Negative, resp.total_reviews)
                          + (IF resp.trend.signal = "declining" THEN 1000 ELSE 0)

ScoreAndLevel(r) ==
    /\ 0 <= r.risk_score /\ r.risk_score <= 10000
    /\ r.risk_level = "High" <=> r.risk_score >= 4000
    /\ r.risk_level = "Medium" <=> (2000 <= r.risk_score /\ r.risk_score < 4000)
    /\ r.risk_level = "Low" <=> r.risk_score < 2000

\* C16: in every summary the risk score lies in [0, 100] and the level is
\* High iff score >= 40, Medium iff 20 <= score < 40, Low iff score < 20;
\* the empty-window summary has score 0.0 and level Low.
C16_ScoreBoundedLevelByScore ==
    /\ resp.op = "summary" =>
        /\ ScoreAndLevel(resp)
        /\ resp.total_reviews = 0 => (resp.risk_score = 0 /\ resp.risk_level = "Low")
    /\ resp.op = "risk" => (ScoreAndLevel(resp.a) /\ ScoreAndLevel(resp.b))

C16_Witness ==
    /\ resp.op = "summary"
    /\ resp.total_reviews = 5
    /\ resp.risk_score = 2000
    /\ resp.risk_level = "Medium"

\* The first review set has the strictly smaller negative share.
SmallerShare(a, b) == a.negative * b.total < b.negative * a.total

\* C17: of two windowed review sets with the same trend signal, the one with
\* the strictly larger negative share has the strictly larger risk score.
C17_StrictlyMonotone ==
    (call.op = "risk" /\ call.signal_a = call.signal_b /\ SmallerShare(call.a, call.b))
        => resp.a.risk_score < resp.b.risk_score

\* C17 as amended: the one with the strictly larger negative share never has
\* the smaller risk score, and has the strictly larger one when the shares
\* differ by 0.0002 or more.
C17_MonotoneUpToRounding ==
    (call.op = "risk" /\ call.signal_a = call.signal_b /\ SmallerShare(call.a, call.b))
        => /\ resp.a.risk_score <= resp.b.risk_score
           /\ 10000 * (call.b.negative * call.a.total - call.a.negative * call.b.total)
                 >= 2 * call.a.total * call.b.total
              => resp.a.risk_score < resp.b.risk_score

C17_Witness ==
    /\ call.op = "risk"
    /\ call.signal_a = call.signal_b
    /\ SmallerShare(call.a, call.b)
    /\ resp.a.risk_score = resp.b.risk_score
    /\ call.a.negative > 0

\* The recommendations written from an aspect or from a keyword.
AboutAreas(recs) ==
    {i \in DOMAIN recs : recs[i].rationale.about \in {"aspect", "keyword"}}

\* The trend meta-recommendations: the ones with no mention count.
TrendMetas(recs) == {i \in DOMAIN recs : recs[i].issue_mentions = {}}

\* The negative share is at least pct percent; the total is taken as 1
\* when it is 0.
ShareAtLeast(sentiments, pct) ==
    LET sum == sentiments.Positive + sentiments.Neutral + sentiments.Negative
        total == IF sum = 0 THEN 1 ELSE sum
    IN  100 * sentiments.Negative >= pct * total

\* C18: an aspect-driven or keyword-driven recommendation has priority High
\* iff its mention count >= 5 or the negative share >= 0.35, Medium iff it
\* is not High and its mention count >= 3 or the negative share >= 0.25,
\* and Low otherwise.
C18_PriorityFromCounts ==
    resp.op = "recommend" =>
        \A i \in AboutAreas(resp.recs) :
            LET rec == resp.recs[i]
                mentions == The(rec.issue_mentions)
                high == mentions >= 5 \/ ShareAtLeast(call.sentiments, 35)
                medium == ~high /\ (mentions >= 3 \/ ShareAtLeast(call.sentiments, 25))
            IN  /\ rec.priority = "High" <=> high
                /\ rec.priority = "Medium" <=> medium
                /\ rec.priority = "Low" <=> (~high /\ ~medium)

C18_Witness ==
    /\ resp.op = "recommend"
    /\ call.sentiments.Negative = 1
    /\ \E i, j, k \in AboutAreas(resp.recs) :
         /\ resp.recs[i].priority = "High" /\ resp.recs[i].issue_mentions = {5}
         /\ resp.recs[j].priority = "Medium" /\ resp.recs[j].issue_mentions = {3}
         /\ resp.recs[k].priority = "Low"

\* C19: the list has a trend meta-recommendation iff the trend signal is
\* declining or improving: when declining it is the first element and has
\* priority High; when improving it is the last element and has priority
\* Low; when stable or insufficient_data there is none.
C19_TrendMetaPlacement ==
    resp.op = "recommend" =>
        LET recs == resp.recs
            sig == call.trend_signal.signal
        IN  /\ sig = "declining" =>
                 /\ TrendMetas(recs) = {1}
                 /\ recs[1].priority = "High"
                 /\ recs[1].weak_area = "trend_decline"
            /\ sig = "improving" =>
                 /\ TrendMetas(recs) = {Len(recs)}
                 /\ recs[Len(recs)].priority = "Low"
                 /\ recs[Len(recs)].weak_area = "trend_improvement"
            /\ sig \in {"stable", "insufficient_data"} => TrendMetas(recs) = {}

C19_Witness ==
    /\ resp.op = "recommend"
    /\ call.trend_signal.signal = "declining"
    /\ Len(resp.recs) >= 4
    /\ TrendMetas(resp.recs) = {1}
    /\ resp.recs[2].priority = "Low"

\* C20: an aspect yields an aspect-driven recommendation iff its negative
\* mentions strictly exceed its positive mentions; these recommendations
\* are in descending order of the gap and all precede the keyword-driven
\* recommendations.
C20_AspectRecsByGapFirst ==
    resp.op = "recommend" =>
        LET recs == resp.recs
            aspect_recs == {i \in DOMAIN recs : recs[i].rationale.about = "aspect"}
            keyword_recs == {i \in DOMAIN recs : recs[i].rationale.about = "keyword"}
            gap(i) == recs[i].rationale.neg - recs[i].rationale.pos
        IN  /\ \A a \in DOMAIN call.aspect_breakdown :
                 LET counts == call.aspect_breakdown[a]
                 IN  (counts.neg > counts.pos) <=>
                        \E i \in aspect_recs :
                            /\ recs[i].weak_area = counts.aspect
                            /\ recs[i].rationale.neg = counts.neg
                            /\ recs[i].rationale.pos = counts.pos
            /\ Cardinality(aspect_recs) =
                 Cardinality({a \in DOMAIN call.aspect_breakdown :
                     call.aspect_breakdown[a].neg > call.aspect_breakdown[a].pos})
            /\ \A i, j \in aspect_recs : i < j => gap(i) >= gap(j)
            /\ \A i \in aspect_recs, j \in keyword_recs : i < j

C20_Witness ==
    /\ resp.op = "recommend"
    /\ Len(call.aspect_breakdown) = 2
    /\ Gap(call.aspect_breakdown[1]) = 1
    /\ Gap(call.aspect_breakdown[2]) = 4
    /\ Len(call.neg_kw_counter) >= 1
    /\ call.trend_signal.signal = "declining"
    /\ resp.recs[2].weak_area = call.aspect_breakdown[2].aspect
    /\ resp.recs[3].weak_area = call.aspect_breakdown[1].aspect
    /\ resp.recs[4].rationale.about = "keyword"

\* ------------------------------------------------------------------------
\* Keywords, the owner action plan, the action table: claims
\* ------------------------------------------------------------------------

\* The recommendation list of the summary an answer was made from.
RecsOf(r) ==
    IF r.op = "summary" THEN r.ai_recommendations
    ELSE IF r.op = "recommendations" THEN r.summary.ai_recommendations
    ELSE <<>>

\* The negative keyword counts of the summary an answer was made from.
NegativeKeywordsOf(r) ==
    IF r.op = "summary" THEN r.negative_keywords
    ELSE IF r.op = "recommendations" THEN r.summary.negative_keywords
    ELSE <<>>

KeywordRecs(recs) == {i \in DOMAIN recs : recs[i].rationale.about = "keyword"}

AspectRecs(recs) == {i \in DOMAIN recs : recs[i].rationale.about = "aspect"}

\* The keyword-driven recommendations are those of the n most frequent
\* negative keywords: at most n, each with the count of its keyword, and no
\* keyword left out is more frequent than one that is in.
TopKeywords(r, n) ==
    LET recs == RecsOf(r)
        counts == NegativeKeywordsOf(r)
    IN  /\ Cardinality(KeywordRecs(recs)) <= n
        /\ Cardinality(KeywordRecs(recs)) = (IF Len(counts) < n THEN Len(counts) ELSE n)
        /\ \A i \in KeywordRecs(recs) :
             /\ \E k \in DOMAIN counts :
                    /\ counts[k].keyword = recs[i].weak_area
                    /\ {counts[k].mentions} = recs[i].issue_mentions
             /\ \A k \in DOMAIN counts :
                    (\A j \in KeywordRecs(recs) : recs[j].weak_area # counts[k].keyword)
                        => {counts[k].mentions} \subseteq 0..The(recs[i].issue_mentions)

\* C21: keyword-driven recommendations are emitted only for the 5 most
\* frequent negative keywords, and no two recommendations of the list have
\* the same area name.
C21_TopFiveDistinctAreas ==
    resp.op \in {"summary", "recommendations"} =>
        /\ TopKeywords(resp, 5)
        /\ \A i, j \in DOMAIN RecsOf(resp) :
             RecsOf(resp)[i].weak_area = RecsOf(resp)[j].weak_area => i = j

\* Entry i stands before entry j by count, and by name among equal counts.
CountThenName(recs, counts, i, j) ==
    \/ counts[i] > counts[j]
    \/ /\ counts[i] = counts[j]
       /\ AlphaRank(Lower(recs[i].weak_area)) < AlphaRank(Lower(recs[j].weak_area))

\* C22: two runs over the same reviews yield the same recommendation list
\* in the same order, whatever process serves them: the aspect-driven
\* entries are in descending order of the gap and the keyword-driven
\* entries in descending order of the count, ties in alphabetical order of
\* the area name.
C22_SameListOrderedByCountThenName ==
    (call.op = "summary" /\ resp.op = "summary") =>
        LET recs == resp.ai_recommendations
        IN  /\ \A h \in HashOrders :
                 get_review_summary_data([call EXCEPT !.hash_order = h],
                     _try_parse_date_any(call.date_from),
                     _try_parse_date_any(call.date_to)).ai_recommendations = recs
            /\ \A i, j \in AspectRecs(recs) :
                 i < j => CountThenName(recs,
                              [k \in DOMAIN recs |->
                                  recs[k].rationale.neg - recs[k].rationale.pos], i, j)
            /\ \A i, j \in KeywordRecs(recs) :
                 i < j => CountThenName(recs,
                              [k \in DOMAIN recs |-> recs[k].rationale.neg], i, j)

\* The negative keyword counts are {wait: 6, rude: 2} and the trend is not
\* declining.
ScenarioD(r) ==
    /\ r.op = "summary"
    /\ Range(r.negative_keywords) =
          {[keyword |-> "wait", mentions |-> 6], [keyword |-> "rude", mentions |-> 2]}
    /\ r.trend.signal # "declining"

WaitFirst(recs) ==
    /\ recs # <<>>
    /\ recs[1].weak_area = "wait"
    /\ recs[1].priority = "High"
    /\ recs[1].recommended_action = ACTION_MAP[1].action
    /\ ACTION_MAP[1].needle = "wait"

\* C23: with negative keyword counts {wait: 6, rude: 2} and a trend that is
\* not declining, the first recommendation has area 'wait', priority High
\* and the action of 'wait' in the action table.
C23_ScenarioDWaitFirst ==
    ScenarioD(resp) => WaitFirst(resp.ai_recommendations)

\* C23 as amended: so it is when, besides, no aspect has more negative than
\* positive mentions.
C23_ScenarioDWaitFirstNoAspect ==
    (/\ ScenarioD(resp)
     /\ \A a \in DOMAIN resp.aspect_breakdown :
            resp.aspect_breakdown[a].neg <= resp.aspect_breakdown[a].pos)
        => WaitFirst(resp.ai_recommendations)

C23_Witness ==
    /\ ScenarioD(resp)
    /\ resp.aspect_breakdown # <<>>
    /\ \A a \in DOMAIN resp.aspect_breakdown :
            resp.aspect_breakdown[a].neg <= resp.aspect_breakdown[a].pos
    /\ Len(resp.ai_recommendations) = 2
    /\ resp.ai_recommendations[1].weak_area = "wait"

\* C24: when no review of the company is dated within the window, the
\* summary is returned and is the empty one: total_reviews 0, avg_rating
\* 0.0, the three sentiment counts 0, and empty trend series, keyword lists
\* and recommendation list.
C24_EmptyWindowEmptySummary ==
    (call.op = "summary" /\ resp.op = "summary"
       /\ DatedWithin(call, resp.window) = {}) =>
        /\ resp.total_reviews = 0
        /\ resp.avg_rating = 0
        /\ \A l \in Labels : resp.sentiments[l] = 0
        /\ resp.trend_data = <<>>
        /\ resp.positive_keywords = <<>>
        /\ resp.negative_keywords = <<>>
        /\ resp.ai_recommendations = <<>>

C24_Witness ==
    /\ call.op = "summary"
    /\ resp.op = "summary"
    /\ Len(call.reviews) = 2
    /\ \E i \in DOMAIN call.reviews : call.reviews[i].review_date = {}
    /\ \E i \in DOMAIN call.reviews :
          \E d \in call.reviews[i].review_date : d > resp.window[2]
    /\ DatedWithin(call, resp.window) = {}
    /\ resp.total_reviews = 0

\* The areas of a list of recommendations, each once, in the order of their
\* first entries.
DistinctAreas(recs) ==
    LET areas == [i \in DOMAIN recs |-> recs[i].weak_area]
        idx == SelectSeq([i \in DOMAIN areas |-> i],
                   LAMBDA i : \A j \in 1..(i - 1) : areas[j] # areas[i])
    IN  [k \in DOMAIN idx |-> recs[idx[k]]]

\* C25: the owner action plan has at most 5 entries, no two of the same
\* area, and is the first distinct areas of the summary's recommendation
\* list in their order; a declining-trend meta-recommendation is its first
\* entry.
C25_PlanFirstFiveDistinct ==
    resp.op = "recommendations" =>
        LET plan == resp.owner_action_plan
            firsts == DistinctAreas(resp.summary.ai_recommendations)
        IN  /\ Len(plan) <= 5
            /\ \A i, j \in DOMAIN plan : plan[i].area = plan[j].area => i = j
            /\ Len(plan) = (IF Len(firsts) < 5 THEN Len(firsts) ELSE 5)
            /\ \A i \in DOMAIN plan :
                 /\ plan[i].area = firsts[i].weak_area
                 /\ plan[i].priority = firsts[i].priority
                 /\ plan[i].what_to_do = firsts[i].recommended_action
            /\ resp.trend.signal = "declining" =>
                 (plan[1].area = "trend_decline" /\ plan[1].priority = "High")

C25_Witness ==
    /\ resp.op = "recommendations"
    /\ resp.trend.signal = "declining"
    /\ Len(resp.owner_action_plan) = 5
    /\ Len(DistinctAreas(resp.summary.ai_recommendations)) > 5
    /\ Len(DistinctAreas(resp.summary.ai_recommendations))
          < Len(resp.summary.ai_recommendations)
    /\ resp.summary.ai_recommendations[3].weak_area = "trend_decline"
    /\ resp.owner_action_plan[3].area = "wait"

\* The windowed reviews a calendar day has.
OfDay(windowed, d) ==
    {i \in DOMAIN windowed : DayOf(The(_parse_review_date(windowed[i]))) = d}

\* C26: the summary contains a daily series with one point for every
\* calendar day of the window, days without reviews included (average
\* rating null, sentiment score 0.0); a day's sentiment score is the mean
\* over its reviews of +1 for Positive, 0 for Neutral, -1 for Negative.
C26_DailySeriesEveryDay ==
    (call.op = "summary" /\ resp.op = "summary") =>
        /\ "daily_series" \in DOMAIN resp
        /\ LET days == DayOf(resp.window[1])..DayOf(resp.window[2])
               daily == resp.daily_series
               of(d) == OfDay(resp.windowed, d)
               signed(d, label) == Cardinality({i \in of(d) :
                   classify_sentiment(resp.windowed[i].rating) = label})
           IN  /\ Len(daily) = Cardinality(days)
               /\ \A d \in days : \E k \in DOMAIN daily :
                    /\ daily[k].day = d
                    /\ of(d) = {} =>
                         /\ daily[k].average_rating = {}
                         /\ daily[k].sentiment_score = [num |-> 0, den |-> 1]
                    /\ of(d) # {} =>
                         daily[k].sentiment_score =
                             [num |-> signed(d, "Positive") - signed(d, "Negative"),
                              den |-> Cardinality(of(d))]

\* The windowed reviews are those of scenario A: ten reviews with the
\* ratings 5, 5, 5, 4, 3, 2, 1, 1, 5, 4 in some order.
IsScenarioA(r) ==
    /\ r.op = "summary"
    /\ Len(r.windowed) = Len(ScenarioA)
    /\ \A v \in 1..MaxRating :
         Cardinality({i \in DOMAIN r.windowed : r.windowed[i].rating = {v}})
             = Cardinality({i \in DOMAIN ScenarioA : ScenarioA[i] = v})

\* C27: for 10 reviews with ratings [5,5,5,4,3,2,1,1,5,4], all inside the
\* window, the summary reports Positive 5, Neutral 1, Negative 4 and the
\* average rating 3.5.
C27_ScenarioAFiveOneFour ==
    IsScenarioA(resp) =>
        /\ resp.sentiments = [Positive |-> 5, Neutral |-> 1, Negative |-> 4]
        /\ resp.avg_rating = 350

\* C27 as amended: the summary reports Positive 6, Neutral 1, Negative 3 and
\* the average rating 3.5.
C27_ScenarioASixOneThree ==
    IsScenarioA(resp) =>
        /\ resp.sentiments = [Positive |-> 6, Neutral |-> 1, Negative |-> 3]
        /\ resp.total_reviews = 10
        /\ resp.avg_rating = 350

C27_Witness ==
    /\ call.op = "summary"
    /\ IsScenarioA(resp)
    /\ call.reviews[1].rating = {4}
    /\ resp.sentiments.Positive = 6

\* The windowed reviews with a keyword of the aspect's lexicon.
ReviewsAbout(windowed, aspect) ==
    {i \in DOMAIN windowed :
        \E k \in DOMAIN ASPECT_LEXICON :
            /\ ASPECT_LEXICON[k].aspect = aspect
            /\ ASPECT_LEXICON[k].lex \cap Range(extract_keywords(windowed[i].text)) # {}}

\* C28: in every non-empty summary Positive + Neutral + Negative equals
\* total_reviews, which equals the sum of the sample counts of the monthly
\* points, and an aspect's pos/neg/neu tally counts each review at most
\* once: the three add up to the number of reviews that mention the aspect.
C28_CountsConsistent ==
    (resp.op = "summary" /\ resp.total_reviews > 0) =>
        /\ resp.sentiments.Positive + resp.sentiments.Neutral
              + resp.sentiments.Negative = resp.total_reviews
        /\ SumSeq([k \in DOMAIN resp.trend_data |-> resp.trend_data[k].count])
              = resp.total_reviews
        /\ \A a \in DOMAIN resp.aspect_breakdown :
             LET entry == resp.aspect_breakdown[a]
             IN  /\ entry.pos + entry.neg + entry.neu
                      = Cardinality(ReviewsAbout(resp.windowed, entry.aspect))
                 /\ entry.pos <= resp.sentiments.Positive
                 /\ entry.neg <= resp.sentiments.Negative
                 /\ entry.neu <= resp.sentiments.Neutral
        /\ \A a, b \in DOMAIN resp.aspect_breakdown :
             resp.aspect_breakdown[a].aspect = resp.aspect_breakdown[b].aspect => a = b

C28_Witness ==
    /\ resp.op = "summary"
    /\ resp.total_reviews = 2
    /\ \E i \in DOMAIN resp.windowed :
          Cardinality({k \in DOMAIN resp.windowed[i].text :
              resp.windowed[i].text[k] \in {"cold", "stale", "broken"}}) = 3
    /\ \E a \in DOMAIN resp.aspect_breakdown :
          /\ resp.aspect_breakdown[a].aspect = "Quality"
          /\ resp.aspect_breakdown[a].neg = 1
    /\ \E a \in DOMAIN resp.aspect_breakdown :
          resp.aspect_breakdown[a].pos + resp.aspect_breakdown[a].neg = 2

\* The rated reviews of a month.
RatedOfMonth(windowed, m) ==
    {i \in DOMAIN windowed :
        /\ MonthOf(The(_parse_review_date(windowed[i]))) = m
        /\ windowed[i].rating # {}}

\* C29: a monthly point's avg_rating is the mean of the ratings of the
\* month's rated reviews only, so it lies between the smallest and the
\* largest rating of the month, and when all windowed reviews are of one
\* month the month's avg_rating is the summary's avg_rating.
C29_MonthlyAverageOfRatedOnly ==
    (resp.op = "summary" /\ resp.total_reviews > 0) =>
        /\ \A k \in DOMAIN resp.trend_data :
             LET rated == RatedOfMonth(resp.windowed, resp.trend_data[k].month)
                 sum == SumSeq([i \in DOMAIN resp.windowed |->
                            IF i \in rated THEN The(resp.windowed[i].rating) ELSE 0])
             IN  rated # {} =>
                   /\ resp.trend_data[k].avg_rating = Round2(sum, Cardinality(rated))
                   /\ \E i \in rated :
                        100 * The(resp.windowed[i].rating) <= resp.trend_data[k].avg_rating
                   /\ \E i \in rated :
                        100 * The(resp.windowed[i].rating) >= resp.trend_data[k].avg_rating
        /\ Len(resp.trend_data) = 1 => resp.trend_data[1].avg_rating = resp.avg_rating

\* C30: looking up a key of the action table returns the action the table
\* lists for it, and a keyword that contains no key of the table returns
\* the generic root-cause-analysis action.
C30_LookupFaithful ==
    (call.op = "action" /\ resp.op = "action") =>
        /\ \A i \in DOMAIN ACTION_MAP :
             call.keyword = ACTION_MAP[i].needle => resp.action = ACTION_MAP[i].action
        /\ (\A i \in DOMAIN ACTION_MAP : ~Contains(ACTION_MAP[i].needle, Lower(call.keyword)))
             => resp.action = GenericAction

====
